---- MODULE Spec2Model ----
(***************************************************************************)
(* Tick semantics of the behavior-tree nodes of behavior-tree-js           *)
(* (ActionNode, InverterNode, ParallelNode, SelectorNode, RepeatNode,      *)
(* UntilFailNode, SequenceNode and the NodeEnumerator cursor).             *)
(*                                                                         *)
(* The heap of node objects is the function `nodes` (object id -> fields). *)
(* One step of the model is one call of tick(state) on the root object,    *)
(* including every nested tick it awaits.  What a user callable returns is *)
(* chosen afresh at every invocation.                                      *)
(***************************************************************************)
EXTENDS Bags, FiniteSets, Integers, Sequences, TLC

VARIABLES
    nodes,      \* the node objects: id -> [type, keepState, ..., children, enumerator]
    result,     \* how the last tick of the root ended (returned value or thrown error)
    log,        \* what the root did during its last tick (see Entry)
    parentNodeStack,  \* BehaviorTreeBuilder: the open nodes, the top last
    curNode,    \* BehaviorTreeBuilder: the node popped by the last end()
    call,       \* the last call the client made and how it ended (see Call)
    session,    \* history of the builder: what was added to and popped
                \* from the top of the stack, in call order
    frame       \* the tick of the root that is under way, when it is followed
                \* from one await to the next (see NoFrame)

vars == <<nodes, result, log, parentNodeStack, curNode, call, session, frame>>

---------------------------------------------------------------------------
(* Bounds of the model *)

MaxNodes == 4        \* node objects in a tree
MaxRequired == 2     \* largest Parallel threshold
MaxDepth == 3        \* levels of a tree: root, its children, their children
MaxBuilt == 3        \* node objects created through one builder

---------------------------------------------------------------------------
(* BehaviorTreeStatus and the other values a callable can produce *)

Success == "SUCCESS"
Failure == "FAILURE"
Running == "RUNNING"
BehaviorTreeStatus == {Success, Failure, Running}

OtherTruthy == "foo"        \* any truthy value that is not a BehaviorTreeStatus
Falsy == "undefined"        \* undefined, null, false, 0, ""

IsTruthy(v) == v # Falsy

(* Errors *)
NO_RETURN_VALUE == "Node must return a BehaviorTreeStatus"
INVERTER_NO_CHILDREN == "InverterNode must have a child node!"
CallableError == "error thrown by the callable"

(* How an (awaited) call ends: it returns a value or throws an error. *)
Return(v) == [thrown |-> FALSE, value |-> v]
Throw(e) == [thrown |-> TRUE, value |-> e]

NoResult == Return("NONE")

(* What awaiting this.fn(state) can yield. *)
FnOutcomes ==
    {Return(v) : v \in BehaviorTreeStatus \cup {OtherTruthy, Falsy}}
        \cup {Throw(CallableError)}

---------------------------------------------------------------------------
(* NodeEnumerator: the cursor of a sequential composite.  The enumerator   *)
(* shares the children array of its node, so only currentIndex is kept;    *)
(* exists = FALSE stands for this.enumerator being undefined.              *)

NoEnumerator == [exists |-> FALSE, currentIndex |-> 0]

NodeEnumerator == [exists |-> TRUE, currentIndex |-> 0]

\* get current(): nodes[currentIndex]; undefined beyond the end of the array
HasCurrent(e, children) == e.currentIndex < Len(children)

\* Variant: `current` is the first node, wherever the cursor is.
CurrentFirst(e, children) == children[1]

Current(e, children) == children[e.currentIndex + 1]

\* hasNext(): !!nodes[currentIndex + 1] (children are node objects, hence truthy)
HasNext(e, children) == e.currentIndex + 1 < Len(children)

\* next(): advances when hasNext(); its return value is HasNext(e, children)
EnumNext(e, children) ==
    IF HasNext(e, children) THEN [e EXCEPT !.currentIndex = @ + 1] ELSE e

\* Variant: reset leaves the cursor where it is.
ResetNothing(e) == e

Reset(e) == [e EXCEPT !.currentIndex = 0]

---------------------------------------------------------------------------
(* Records of what a node did during a tick *)

\* ticked: positions of the children ticked, in order; results: how each of
\* those child ticks ended (for an Action: how the call of fn ended);
\* out: how the node's own tick ended; entered: this.enumerator as the tick
\* of a sequential composite found it.
\* For a Parallel the children's outcomes are kept as counts: how many child
\* ticks returned Success, returned Failure, threw; succeeded and failed are
\* the counts the node itself computed.
Entry(ticked, results, out) ==
    [ticked |-> ticked, results |-> results, out |-> out,
     entered |-> NoEnumerator,
     returnedSuccess |-> 0, returnedFailure |-> 0, threw |-> 0,
     succeeded |-> 0, failed |-> 0]

NoEntry == Entry(<<>>, <<>>, NoResult)

(* ActionNode.tick *)

ActionNodeResult(f) ==
    IF f.thrown THEN f
    ELSE IF ~IsTruthy(f.value) THEN Throw(NO_RETURN_VALUE)
    ELSE Return(f.value)

\* Variant: an error of the child is caught and counted as its Failure.
InverterNodeResultCatch(o) ==
    IF o.thrown THEN Return(Success)
    ELSE IF o.value = Failure THEN Return(Success)
    ELSE IF o.value = Success THEN Return(Failure)
    ELSE Return(o.value)

\* Variant: the result of the child is passed through without inversion.
InverterNodeResultPassThrough(o) == o

(* InverterNode.tick, once the child's tick has ended with o *)
InverterNodeResult(o) ==
    IF o.thrown THEN o
    ELSE IF o.value = Failure THEN Return(Success)
    ELSE IF o.value = Success THEN Return(Failure)
    ELSE Return(o.value)

(* The body of the do-while loop of the four sequential composites, for    *)
(* the status a child returned: stop (return ret, after a reset when reset *)
(* is TRUE), or go on to `while (this.enumerator.next())`.                 *)
\* Variant: a Failure stops the Sequence without resetting the enumerator.
SequenceNodeStepNoReset(status) ==
    IF status # Success
    THEN [stop |-> TRUE, reset |-> FALSE, ret |-> status]
    ELSE [stop |-> FALSE, reset |-> FALSE, ret |-> status]

SequenceNodeStep(status) ==
    IF status # Success
    THEN [stop |-> TRUE, reset |-> (status = Failure), ret |-> status]
    ELSE [stop |-> FALSE, reset |-> FALSE, ret |-> status]

\* Variant: the Selector runs the loop body of the Sequence.
SelectorNodeStepOfSequence(status) ==
    IF status # Success
    THEN [stop |-> TRUE, reset |-> (status = Failure), ret |-> status]
    ELSE [stop |-> FALSE, reset |-> FALSE, ret |-> status]

SelectorNodeStep(status) ==
    IF status # Failure
    THEN [stop |-> TRUE, reset |-> (status = Success), ret |-> status]
    ELSE [stop |-> FALSE, reset |-> FALSE, ret |-> status]

\* Variant: the Repeat returns the status of the child it stopped on.
RepeatNodeStepOfUntilFail(status) ==
    IF status # Success
    THEN [stop |-> TRUE, reset |-> (status = Failure), ret |-> status]
    ELSE [stop |-> FALSE, reset |-> FALSE, ret |-> status]

RepeatNodeStep(status) ==
    IF status # Success
    THEN [stop |-> TRUE, reset |-> (status = Failure), ret |-> Running]
    ELSE [stop |-> FALSE, reset |-> FALSE, ret |-> status]

\* Variant: the UntilFail returns Running whatever child status stopped it.
UntilFailNodeStepOfRepeat(status) ==
    IF status # Success
    THEN [stop |-> TRUE, reset |-> (status = Failure), ret |-> Running]
    ELSE [stop |-> FALSE, reset |-> FALSE, ret |-> status]

UntilFailNodeStep(status) ==
    IF status # Success
    THEN [stop |-> TRUE, reset |-> (status = Failure), ret |-> status]
    ELSE [stop |-> FALSE, reset |-> FALSE, ret |-> status]

(* What the tick returns when the loop ran out of children. *)
SequenceNodeExhausted == Success
SelectorNodeExhausted == Failure
RepeatNodeExhausted == Running
UntilFailNodeExhausted == Running

SequentialTypes == {"Sequence", "Selector", "Repeat", "UntilFail"}

StepOf(type, status) ==
    CASE type = "Sequence" -> SequenceNodeStep(status)
      [] type = "Selector" -> SelectorNodeStep(status)
      [] type = "Repeat" -> RepeatNodeStep(status)
      [] type = "UntilFail" -> UntilFailNodeStep(status)

ExhaustedOf(type) ==
    CASE type = "Sequence" -> SequenceNodeExhausted
      [] type = "Selector" -> SelectorNodeExhausted
      [] type = "Repeat" -> RepeatNodeExhausted
      [] type = "UntilFail" -> UntilFailNodeExhausted

\* Variant: init() on every tick, keepState ignored.
InitEnumeratorAlways(node) == NodeEnumerator

\* Variant: init() only when there is no enumerator yet, keepState ignored.
InitEnumeratorOnce(node) ==
    IF ~node.enumerator.exists THEN NodeEnumerator ELSE node.enumerator

\* `if (!this.enumerator || !this.keepState) this.init();`
InitEnumerator(node) ==
    IF ~node.enumerator.exists \/ ~node.keepState
    THEN NodeEnumerator
    ELSE node.enumerator

\* Variant: tickChildren without the try/catch.
TickChildrenNoCatch(o) == o

(* ParallelNode.tickChildren: an error of the child's tick is caught. *)
TickChildren(o) == IF o.thrown THEN Return(Failure) ELSE o

\* The statuses array of ParallelNode.tick is only ever counted, so it is kept
\* as a bag: the number of children per outcome.
\* statuses.filter((x) => x === v).length
CountOf(statuses, v) == CopiesIn(Return(v), statuses)

\* Promise.all rejects when one of the promises is rejected
Rejected(statuses) == {o \in BagToSet(statuses) : o.thrown}

\* Variant: the failure threshold is tested before the success threshold.
ParallelNodeResultFailureFirst(node, statuses) ==
    LET succeeded == CountOf(statuses, Success)
        failed == CountOf(statuses, Failure)
    IN  IF Rejected(statuses) # {}
        THEN CHOOSE o \in Rejected(statuses) : TRUE
        ELSE IF node.requiredToFail > 0 /\ failed >= node.requiredToFail
        THEN Return(Failure)
        ELSE IF node.requiredToSucceed > 0 /\ succeeded >= node.requiredToSucceed
        THEN Return(Success)
        ELSE Return(Running)

(* ParallelNode.tick, once all children's promises are settled *)
ParallelNodeResult(node, statuses) ==
    LET succeeded == CountOf(statuses, Success)
        failed == CountOf(statuses, Failure)
    IN  IF Rejected(statuses) # {}
        THEN CHOOSE o \in Rejected(statuses) : TRUE
        ELSE IF node.requiredToSucceed > 0 /\ succeeded >= node.requiredToSucceed
        THEN Return(Success)
        ELSE IF node.requiredToFail > 0 /\ failed >= node.requiredToFail
        THEN Return(Failure)
        ELSE Return(Running)

---------------------------------------------------------------------------
(* tick(state) of a node object: the set of ways the call can end, each    *)
(* with the heap it leaves behind and the record of the nodes it ticked.   *)

\* A way a tick can end: did (the node's record), out, post (the heap after)
RECURSIVE Tick(_, _), Loop(_, _, _, _), TickAll(_, _, _, _, _)

ActionNodeTick(n, ns) ==
    {[did |-> Entry(<<>>, <<f>>, ActionNodeResult(f)),
      out |-> ActionNodeResult(f), post |-> ns] : f \in FnOutcomes}

InverterNodeTick(n, ns) ==
    IF ns[n].children = <<>>
    THEN {[did |-> Entry(<<>>, <<>>, Throw(INVERTER_NO_CHILDREN)),
           out |-> Throw(INVERTER_NO_CHILDREN), post |-> ns]}
    ELSE {[did |-> Entry(<<0>>, <<r.out>>, InverterNodeResult(r.out)),
           out |-> InverterNodeResult(r.out), post |-> r.post]
            : r \in Tick(ns[n].children[1], ns)}

\* The tick of a sequential composite ends with out.
Finish(ns, ticked, results, out) ==
    {[did |-> Entry(ticked, results, out), out |-> out, post |-> ns]}

\* do { status = await current.tick(state); ... } while (enumerator.next());
Loop(n, ns, ticked, results) ==
    LET node == ns[n]
        i == node.enumerator.currentIndex
    IN  UNION {
          LET ns1 == r.post
              t1 == Append(ticked, i)
              rs1 == Append(results, r.out)
              e1 == ns1[n].enumerator
          IN  IF r.out.thrown
              THEN Finish(ns1, t1, rs1, r.out)
              ELSE LET d == StepOf(node.type, r.out.value)
                   IN  IF d.stop
                       THEN Finish([ns1 EXCEPT ![n].enumerator =
                                       IF d.reset THEN Reset(e1) ELSE e1],
                                   t1, rs1, Return(d.ret))
                       ELSE IF HasNext(e1, node.children)
                       THEN Loop(n,
                               [ns1 EXCEPT ![n].enumerator = EnumNext(e1, node.children)],
                               t1, rs1)
                       ELSE Finish([ns1 EXCEPT ![n].enumerator = Reset(e1)],
                                   t1, rs1, Return(ExhaustedOf(node.type)))
          : r \in Tick(Current(node.enumerator, node.children), ns)}

\* Variant: without children the pass counts as exhausted at once.
SequentialNodeTickNoGuard(n, ns) ==
    LET ns0 == [ns EXCEPT ![n].enumerator = InitEnumerator(ns[n])]
        ends == IF ~HasCurrent(ns0[n].enumerator, ns0[n].children)
                THEN Finish(ns0, <<>>, <<>>, Return(ExhaustedOf(ns0[n].type)))
                ELSE Loop(n, ns0, <<>>, <<>>)
    IN  {[r EXCEPT !.did.entered = ns[n].enumerator] : r \in ends}

SequentialNodeTick(n, ns) ==
    LET ns0 == [ns EXCEPT ![n].enumerator = InitEnumerator(ns[n])]
        ends == IF ~HasCurrent(ns0[n].enumerator, ns0[n].children)
                THEN Finish(ns0, <<>>, <<>>, Return(Running))
                ELSE Loop(n, ns0, <<>>, <<>>)
    IN  {[r EXCEPT !.did.entered = ns[n].enumerator] : r \in ends}

\* this.children.map((c) => this.tickChildren(state, c)), children k..last:
\* outs is how the ticks of the children before k ended, statuses what
\* tickChildren made of them.  The ticks are started in array order; the
\* children of a tree share no node object, so the order in which their
\* awaits complete does not change the outcomes or the heap they leave.
TickAll(n, ns, k, outs, statuses) ==
    IF k > Len(ns[n].children)
    THEN {[outs |-> outs, statuses |-> statuses, post |-> ns]}
    ELSE UNION {TickAll(n, r.post, k + 1,
                        outs (+) SetToBag({r.out}),
                        statuses (+) SetToBag({TickChildren(r.out)}))
                  : r \in Tick(ns[n].children[k], ns)}

ParallelNodeTick(n, ns) ==
    {[did |-> [ticked |-> [i \in 1..Len(ns[n].children) |-> i - 1],
               results |-> <<>>,
               out |-> ParallelNodeResult(ns[n], x.statuses),
               entered |-> NoEnumerator,
               returnedSuccess |-> CountOf(x.outs, Success),
               returnedFailure |-> CountOf(x.outs, Failure),
               threw |-> BagCardinality([o \in Rejected(x.outs) |-> x.outs[o]]),
               succeeded |-> CountOf(x.statuses, Success),
               failed |-> CountOf(x.statuses, Failure)],
      out |-> ParallelNodeResult(ns[n], x.statuses),
      post |-> x.post]
       : x \in TickAll(n, ns, 1, EmptyBag, EmptyBag)}

Tick(n, ns) ==
    CASE ns[n].type = "Action" -> ActionNodeTick(n, ns)
      [] ns[n].type = "Inverter" -> InverterNodeTick(n, ns)
      [] ns[n].type = "Parallel" -> ParallelNodeTick(n, ns)
      [] ns[n].type \in SequentialTypes -> SequentialNodeTick(n, ns)

---------------------------------------------------------------------------
(* Construction of the trees: constructors followed by addChild calls.     *)
(* A tree is [hdr, kids]: the constructor arguments of its root and the    *)
(* trees added to it with addChild, in call order.  Children are node      *)
(* objects (never undefined or null) and no object is added twice.         *)

Header(type, keepState, requiredToFail, requiredToSucceed) ==
    [type |-> type, keepState |-> keepState,
     requiredToFail |-> requiredToFail, requiredToSucceed |-> requiredToSucceed]

ActionNode == Header("Action", FALSE, 0, 0)
InverterNode == Header("Inverter", FALSE, 0, 0)
ParallelNode(requiredToFail, requiredToSucceed) ==
    Header("Parallel", FALSE, requiredToFail, requiredToSucceed)
SequentialNode(type, keepState) == Header(type, keepState, 0, 0)

RootHeaders ==
    {ActionNode, InverterNode}
        \cup {ParallelNode(f, s) : f \in 0..MaxRequired, s \in 0..MaxRequired}
        \cup {SequentialNode(t, k) : t \in SequentialTypes, k \in BOOLEAN}

ChildHeaders ==
    {ActionNode, InverterNode}
        \cup {SequentialNode("Sequence", TRUE)}

HeadersAt(level) ==
    IF level = 1 THEN RootHeaders
    ELSE IF level < MaxDepth THEN ChildHeaders
    ELSE {ActionNode}

RECURSIVE Size(_), SizeOfAll(_), Forests(_, _), TreesAt(_, _)

Size(t) == 1 + SizeOfAll(t.kids)

SizeOfAll(f) == IF f = <<>> THEN 0 ELSE Size(Head(f)) + SizeOfAll(Tail(f))

\* addChild: none for an Action, at most one for an Inverter
CanHold(h, f) ==
    CASE h.type = "Action" -> f = <<>>
      [] h.type = "Inverter" -> Len(f) <= 1
      [] OTHER -> TRUE

TreesAt(b, level) ==
    IF b = 0 \/ level > MaxDepth THEN {}
    ELSE UNION {{[hdr |-> h, kids |-> f] :
                    f \in {g \in Forests(b - 1, level + 1) : CanHold(h, g)}}
                : h \in HeadersAt(level)}

Forests(b, level) ==
    {<<>>} \cup UNION {{<<t>> \o f : f \in Forests(b - Size(t), level)}
                        : t \in TreesAt(b, level)}

\* The node objects of tree t, the root getting id base + 1 and the
\* descendants the following ids in the order of their creation.
RECURSIVE Objects(_, _), ObjectsOfAll(_, _)

KidIds(t, base) ==
    [j \in DOMAIN t.kids |-> base + 2 + SizeOfAll(SubSeq(t.kids, 1, j - 1))]

Objects(t, base) ==
    <<[type |-> t.hdr.type, keepState |-> t.hdr.keepState,
       requiredToFail |-> t.hdr.requiredToFail,
       requiredToSucceed |-> t.hdr.requiredToSucceed,
       children |-> KidIds(t, base),
       enumerator |-> NoEnumerator]>>
      \o ObjectsOfAll(t.kids, base + 1)

ObjectsOfAll(f, base) ==
    IF f = <<>> THEN <<>>
    ELSE Objects(Head(f), base) \o ObjectsOfAll(Tail(f), base + Size(Head(f)))

Root == 1

---------------------------------------------------------------------------
(* Calls of the client: what was called, with which keepState argument,   *)
(* the node created or passed, the error thrown and the node returned.     *)

NoError == "none"
NO_NODES == "Cannot create a behavior tree with zero nodes."
SPLICE_UNNESTED_TREE ==
    "Cannot splice an unnested sub-tree. There must be a parent-tree."
INVERTER_MULTIPLE_CHILDREN ==
    "Can't add more than a single child to InverterNode!"
UNNESTED_ACTION_NODE ==
    "Can't create an unnested ActionNode. It must be a leaf node."
\* reading `previous` of the undefined top node in Stack.pop
TypeError == "TypeError: Cannot read properties of undefined"

NoNode == 0
Undefined == "undefined"
KeepStateArgs == {Undefined, "true"}

Call(op, keepState, node, error, returned) ==
    [op |-> op, keepState |-> keepState, node |-> node,
     error |-> error, returned |-> returned]
NoCall == Call("none", Undefined, NoNode, NoError, NoNode)
TickCall == Call("tick", Undefined, NoNode, NoError, NoNode)

NoSession == [added |-> <<>>, popped |-> <<>>]

---------------------------------------------------------------------------
(* addChild *)

\* Variant: a later child replaces the first one.
InverterNodeAddChildReplace(ns, n, c) ==
    [error |-> NoError, post |-> [ns EXCEPT ![n].children = <<c>>]]

\* Variant: the child is assigned before the test throws.
InverterNodeAddChildThenThrow(ns, n, c) ==
    IF ns[n].children # <<>>
    THEN [error |-> INVERTER_MULTIPLE_CHILDREN,
          post |-> [ns EXCEPT ![n].children = <<c>>]]
    ELSE [error |-> NoError, post |-> [ns EXCEPT ![n].children = <<c>>]]

InverterNodeAddChild(ns, n, c) ==
    IF ns[n].children # <<>>
    THEN [error |-> INVERTER_MULTIPLE_CHILDREN, post |-> ns]
    ELSE [error |-> NoError, post |-> [ns EXCEPT ![n].children = <<c>>]]

\* Variant: the child is inserted before the children added earlier.
PushChildFront(ns, n, c) ==
    [error |-> NoError, post |-> [ns EXCEPT ![n].children = <<c>> \o @]]

\* this.children.push(child)
PushChild(ns, n, c) ==
    [error |-> NoError, post |-> [ns EXCEPT ![n].children = Append(@, c)]]

AddChild(ns, n, c) ==
    IF ns[n].type = "Inverter"
    THEN InverterNodeAddChild(ns, n, c)
    ELSE PushChild(ns, n, c)

---------------------------------------------------------------------------
(* The state machine of a tree that is ticked *)

\* pc: idle, map (inside children.map of a Parallel) or await; started:
\* the positions of the children whose tick was called, in call order;
\* completed: the positions of the children whose tick was awaited to its
\* end, in that order; outs: what these awaits produced, in that order.
NoFrame == [pc |-> "idle", started |-> <<>>, completed |-> <<>>, outs |-> <<>>]

NoBuilder ==
    /\ parentNodeStack = <<>>
    /\ curNode = NoNode
    /\ session = NoSession
    /\ frame = NoFrame

Init ==
    /\ nodes \in {Objects(t, 0) : t \in TreesAt(MaxNodes, 1)}
    /\ result = NoResult
    /\ log = NoEntry
    /\ call = NoCall
    /\ NoBuilder

\* The caller ticks the root.
TickRoot ==
    /\ \E r \in Tick(Root, nodes) :
          /\ nodes' = r.post
          /\ result' = r.out
          /\ log' = r.did
    /\ call' = TickCall
    /\ UNCHANGED <<parentNodeStack, curNode, session, frame>>

Next == TickRoot

Spec == Init /\ [][Next]_vars

---------------------------------------------------------------------------
(* An InverterNode used directly: the client constructs it, calls addChild *)
(* with nodes it has constructed before, and ticks it.                     *)

\* The nodes that are the child of no node.
Parentless(ns) ==
    {c \in DOMAIN ns : \A n \in DOMAIN ns :
                          \A i \in DOMAIN ns[n].children : ns[n].children[i] # c}

InitInverter ==
    /\ nodes \in {Objects([hdr |-> InverterNode, kids |-> <<>>], 0)
                       \o ObjectsOfAll(f, 1) : f \in Forests(MaxNodes - 1, 2)}
    /\ result = NoResult
    /\ log = NoEntry
    /\ call = NoCall
    /\ NoBuilder

InverterAddChild ==
    \E c \in Parentless(nodes) \ {Root} :
        LET r == AddChild(nodes, Root, c)
        IN  /\ nodes' = r.post
            /\ call' = Call("addChild", Undefined, c, r.error, NoNode)
            /\ UNCHANGED <<result, log, frame, parentNodeStack, curNode, session>>

NextInverter == InverterAddChild \/ TickRoot

SpecInverter == InitInverter /\ [][NextInverter]_vars

---------------------------------------------------------------------------
(* BehaviorTreeBuilder.  The node objects it creates get the ids 1, 2, ... *)
(* in the order of their creation; a call that throws before its node is   *)
(* attached leaves no object behind.                                       *)

\* Stack: a sequence with the top last
IsEmpty(stack) == stack = <<>>
Peek(stack) == stack[Len(stack)]
Push(stack, value) == Append(stack, value)
Pop(stack) == SubSeq(stack, 1, Len(stack) - 1)

\* A node object as its constructor leaves it.
NewObject(hdr) ==
    [type |-> hdr.type, keepState |-> hdr.keepState,
     requiredToFail |-> hdr.requiredToFail,
     requiredToSucceed |-> hdr.requiredToSucceed,
     children |-> <<>>,
     enumerator |-> NoEnumerator]

\* constructor(name, keepState = false) of the four sequential composites
NewSequentialNode(type, keepState) ==
    SequentialNode(type, IF keepState = Undefined THEN FALSE
                         ELSE keepState = "true")

\* The keepState argument the builder hands to the constructor:
\* sequence, repeat and untilFail declare `keepState = true`, selector
\* declares `keepState` without a default.
SequenceKeepState(keepState) ==
    IF keepState = Undefined THEN "true" ELSE keepState
SelectorKeepState(keepState) == keepState
RepeatKeepState(keepState) ==
    IF keepState = Undefined THEN "true" ELSE keepState
UntilFailKeepState(keepState) ==
    IF keepState = Undefined THEN "true" ELSE keepState

\* Arguments of the calls
BuilderRequired == {MaxRequired}
SpliceTypes == {"Selector"}

\* The call throws: nothing but the record of the call changes.
Fails(op, error) ==
    /\ call' = Call(op, Undefined, NoNode, error, NoNode)
    /\ UNCHANGED <<nodes, result, log, frame, parentNodeStack, curNode, session>>

\* addChild has thrown, r is what it left: the call throws, and the node
\* that was to be added is referenced by nothing.
Rejects(op, r) ==
    /\ call' = Call(op, Undefined, NoNode, r.error, NoNode)
    /\ nodes' = SubSeq(r.post, 1, Len(nodes))
    /\ UNCHANGED <<result, log, frame, parentNodeStack, curNode, session>>

\* session.added once node c was added to the node on top of the stack
\* (to no node when the stack is empty)
Added(c) ==
    LET a == session.added
        b == IF IsEmpty(parentNodeStack) THEN a
             ELSE [a EXCEPT ![Peek(parentNodeStack)] = Append(@, c)]
    IN  [session EXCEPT !.added = Append(b, <<>>)]

\* Variant: the node added is also pushed, as an open node.
AddToTopAndPush(op, keepState, hdr) ==
    LET c == Len(nodes) + 1
        r == AddChild(Append(nodes, NewObject(hdr)), Peek(parentNodeStack), c)
    IN  IF r.error # NoError
        THEN Rejects(op, r)
        ELSE /\ Len(nodes) < MaxBuilt
             /\ nodes' = r.post
             /\ parentNodeStack' = Push(parentNodeStack, c)
             /\ session' = Added(c)
             /\ call' = Call(op, keepState, c, NoError, NoNode)
             /\ UNCHANGED <<result, log, frame, curNode>>

\* this.parentNodeStack.peek().addChild(node) for a node constructed with
\* hdr, by the builder (do) or by the client (splice)
AddToTop(op, keepState, hdr) ==
    LET c == Len(nodes) + 1
        r == AddChild(Append(nodes, NewObject(hdr)), Peek(parentNodeStack), c)
    IN  IF r.error # NoError
        THEN Rejects(op, r)
        ELSE /\ Len(nodes) < MaxBuilt
             /\ nodes' = r.post
             /\ session' = Added(c)
             /\ call' = Call(op, keepState, c, NoError, NoNode)
             /\ UNCHANGED <<result, log, frame, parentNodeStack, curNode>>

DoNamed(op) ==
    IF IsEmpty(parentNodeStack)
    THEN Fails(op, UNNESTED_ACTION_NODE)
    ELSE AddToTop(op, Undefined, ActionNode)

Do == DoNamed("do")

\* this.do(name, <the predicate wrapped into a callable>)
Condition == DoNamed("condition")

AddParentNode(op, keepState, hdr) ==
    LET c == Len(nodes) + 1
        ns == Append(nodes, NewObject(hdr))
        r == IF ~IsEmpty(parentNodeStack)
             THEN AddChild(ns, Peek(parentNodeStack), c)
             ELSE [error |-> NoError, post |-> ns]
    IN  IF r.error # NoError
        THEN Rejects(op, r)
        ELSE /\ Len(nodes) < MaxBuilt
             /\ nodes' = r.post
             /\ parentNodeStack' = Push(parentNodeStack, c)
             /\ session' = Added(c)
             /\ call' = Call(op, keepState, c, NoError, NoNode)
             /\ UNCHANGED <<result, log, frame, curNode>>

Inverter == AddParentNode("inverter", Undefined, InverterNode)

Sequence ==
    \E keepState \in KeepStateArgs :
        AddParentNode("sequence", keepState,
            NewSequentialNode("Sequence", SequenceKeepState(keepState)))

Parallel ==
    \E requiredToFail \in BuilderRequired, requiredToSucceed \in BuilderRequired :
        AddParentNode("parallel", Undefined,
            ParallelNode(requiredToFail, requiredToSucceed))

Selector ==
    \E keepState \in KeepStateArgs :
        AddParentNode("selector", keepState,
            NewSequentialNode("Selector", SelectorKeepState(keepState)))

Repeat ==
    \E keepState \in KeepStateArgs :
        AddParentNode("repeat", keepState,
            NewSequentialNode("Repeat", RepeatKeepState(keepState)))

UntilFail ==
    \E keepState \in KeepStateArgs :
        AddParentNode("untilFail", keepState,
            NewSequentialNode("UntilFail", UntilFailKeepState(keepState)))

\* splice(subTree): the client has constructed the sub-tree itself, an
\* Action or a composite constructed as `new SelectorNode(name)`.
Splice ==
    \E hdr \in {ActionNode}
                 \cup {NewSequentialNode(t, Undefined) : t \in SpliceTypes} :
        IF IsEmpty(parentNodeStack)
        THEN Fails("splice", SPLICE_UNNESTED_TREE)
        ELSE AddToTop("splice", Undefined, hdr)

\* Variant: build() empties the stack of open nodes.
BuildAndDiscard ==
    IF curNode = NoNode
    THEN Fails("build", NO_NODES)
    ELSE /\ call' = Call("build", Undefined, NoNode, NoError, curNode)
         /\ parentNodeStack' = <<>>
         /\ UNCHANGED <<nodes, result, log, frame, curNode, session>>

Build ==
    IF curNode = NoNode
    THEN Fails("build", NO_NODES)
    ELSE /\ call' = Call("build", Undefined, NoNode, NoError, curNode)
         /\ UNCHANGED <<nodes, result, log, frame, parentNodeStack, curNode, session>>

\* Variant: end() remembers the outermost open node.
EndKeepsOutermost ==
    IF IsEmpty(parentNodeStack)
    THEN Fails("end", TypeError)
    ELSE /\ curNode' = parentNodeStack[1]
         /\ parentNodeStack' = Pop(parentNodeStack)
         /\ session' = [session EXCEPT !.popped = Append(@, Peek(parentNodeStack))]
         /\ call' = Call("end", Undefined, NoNode, NoError, NoNode)
         /\ UNCHANGED <<nodes, result, log, frame>>

\* this.curNode = this.parentNodeStack.pop(): on an empty stack pop throws
\* before anything is assigned.
End ==
    IF IsEmpty(parentNodeStack)
    THEN Fails("end", TypeError)
    ELSE /\ curNode' = Peek(parentNodeStack)
         /\ parentNodeStack' = Pop(parentNodeStack)
         /\ session' = [session EXCEPT !.popped = Append(@, Peek(parentNodeStack))]
         /\ call' = Call("end", Undefined, NoNode, NoError, NoNode)
         /\ UNCHANGED <<nodes, result, log, frame>>

InitBuilder ==
    /\ nodes = <<>>
    /\ result = NoResult
    /\ log = NoEntry
    /\ call = NoCall
    /\ NoBuilder

NextBuilder ==
    \/ Do
    \/ Condition
    \/ Inverter
    \/ Sequence
    \/ Parallel
    \/ Selector
    \/ Repeat
    \/ UntilFail
    \/ Splice
    \/ Build
    \/ End

SpecBuilder == InitBuilder /\ [][NextBuilder]_vars

---------------------------------------------------------------------------
(* The tick of a composite root followed from one await to the next.  The  *)
(* code between two awaits runs without interruption; a continuation of an *)
(* await runs only after the code that is running has reached an await or  *)
(* returned.  The tick of a child is one step: the await on it resumes     *)
(* with how that tick ended.                                               *)

SeqToBag(s) ==
    [v \in {s[i] : i \in DOMAIN s} |-> Cardinality({i \in DOMAIN s : s[i] = v})]

SeqToSet(s) == {s[i] : i \in DOMAIN s}

\* The tick of the root ends with out, leaving heap ns and frame f.
TickEnds(ns, f, out) ==
    /\ nodes' = ns
    /\ result' = out
    /\ frame' = [f EXCEPT !.pc = "idle"]
    /\ log' = [Entry(f.started, f.outs, out) EXCEPT !.entered = log.entered]

\* tick(state) of a Sequence, Selector, Repeat or UntilFail, up to the
\* first `await this.enumerator.current.tick(state)`
SequentialTickBegin ==
    /\ frame.pc = "idle"
    /\ nodes[Root].type \in SequentialTypes
    /\ LET e == InitEnumerator(nodes[Root])
           ns == [nodes EXCEPT ![Root].enumerator = e]
       IN  IF ~HasCurrent(e, nodes[Root].children)
           THEN /\ nodes' = ns
                /\ result' = Return(Running)
                /\ frame' = NoFrame
                /\ log' = [Entry(<<>>, <<>>, Return(Running))
                              EXCEPT !.entered = nodes[Root].enumerator]
           ELSE /\ nodes' = ns
                /\ result' = NoResult
                /\ frame' = [NoFrame EXCEPT
                                !.pc = "await",
                                !.started = <<Current(e, nodes[Root].children)>>]
                /\ log' = [NoEntry EXCEPT !.entered = nodes[Root].enumerator]
    /\ call' = TickCall
    /\ UNCHANGED <<parentNodeStack, curNode, session>>

\* from the end of the awaited tick of the current child to the next await
\* or to the end of the tick
SequentialTickResume ==
    /\ frame.pc = "await"
    /\ nodes[Root].type \in SequentialTypes
    /\ \E r \in Tick(Current(nodes[Root].enumerator, nodes[Root].children), nodes) :
          LET node == nodes[Root]
              ns1 == r.post
              e1 == ns1[Root].enumerator
              f1 == [frame EXCEPT
                        !.completed = Append(@, Current(node.enumerator, node.children)),
                        !.outs = Append(@, r.out)]
          IN  IF r.out.thrown
              THEN TickEnds(ns1, f1, r.out)
              ELSE LET d == StepOf(node.type, r.out.value)
                   IN  IF d.stop
                       THEN TickEnds([ns1 EXCEPT ![Root].enumerator =
                                         IF d.reset THEN Reset(e1) ELSE e1],
                                     f1, Return(d.ret))
                       ELSE IF HasNext(e1, node.children)
                       THEN LET e2 == EnumNext(e1, node.children)
                            IN  /\ nodes' = [ns1 EXCEPT ![Root].enumerator = e2]
                                /\ frame' = [f1 EXCEPT !.started =
                                                Append(@, Current(e2, node.children))]
                                /\ UNCHANGED <<result, log>>
                       ELSE TickEnds([ns1 EXCEPT ![Root].enumerator = Reset(e1)],
                                     f1, Return(ExhaustedOf(node.type)))
    /\ UNCHANGED <<parentNodeStack, curNode, call, session>>

\* tick(state) of a Parallel up to the call of this.children.map
ParallelTickBegin ==
    /\ frame.pc = "idle"
    /\ nodes[Root].type = "Parallel"
    /\ frame' = [NoFrame EXCEPT
                    !.pc = IF nodes[Root].children = <<>> THEN "await" ELSE "map"]
    /\ result' = NoResult
    /\ log' = NoEntry
    /\ call' = TickCall
    /\ UNCHANGED <<nodes, parentNodeStack, curNode, session>>

\* One iteration of children.map: tickChildren(state, c) calls c.tick(state)
\* and reaches its await; after the last iteration Promise.all is awaited.
ParallelTickMap ==
    /\ frame.pc = "map"
    /\ LET k == Len(frame.started) + 1
       IN  frame' = [frame EXCEPT
                        !.started = Append(@, nodes[Root].children[k]),
                        !.pc = IF k = Len(nodes[Root].children)
                               THEN "await" ELSE "map"]
    /\ UNCHANGED <<nodes, result, log, parentNodeStack, curNode, call, session>>

\* The await in tickChildren of one child resumes, in any order among the
\* children, and tickChildren returns (or, without the catch, throws).
TickChildrenResume ==
    /\ frame.pc = "await"
    /\ nodes[Root].type = "Parallel"
    /\ \E c \in SeqToSet(frame.started) \ SeqToSet(frame.completed) :
          \E r \in Tick(c, nodes) :
              /\ nodes' = r.post
              /\ frame' = [frame EXCEPT
                              !.completed = Append(@, c),
                              !.outs = Append(@, TickChildren(r.out))]
    /\ UNCHANGED <<result, log, parentNodeStack, curNode, call, session>>

\* Promise.all settles: fulfilled when every tickChildren has returned,
\* rejected as soon as one has thrown; the tick computes its result.
ParallelTickSettle ==
    /\ frame.pc = "await"
    /\ nodes[Root].type = "Parallel"
    /\ \/ Len(frame.completed) = Len(nodes[Root].children)
       \/ Rejected(SeqToBag(frame.outs)) # {}
    /\ TickEnds(nodes, frame, ParallelNodeResult(nodes[Root], SeqToBag(frame.outs)))
    /\ UNCHANGED <<parentNodeStack, curNode, call, session>>

InitSteps ==
    /\ nodes \in {Objects(t, 0) : t \in {u \in TreesAt(MaxNodes, 1) :
                      u.hdr.type \in SequentialTypes \cup {"Parallel"}}}
    /\ result = NoResult
    /\ log = NoEntry
    /\ call = NoCall
    /\ NoBuilder

NextSteps ==
    \/ SequentialTickBegin
    \/ SequentialTickResume
    \/ ParallelTickBegin
    \/ ParallelTickMap
    \/ TickChildrenResume
    \/ ParallelTickSettle

SpecSteps == InitSteps /\ [][NextSteps]_vars

---------------------------------------------------------------------------
(* Properties.  They are stated about the root: every node type is the     *)
(* root of some tree of Init.                                              *)

RootNode == nodes[Root]
Arity == Len(RootNode.children)
Cursor == RootNode.enumerator.currentIndex
HasTicked == result # NoResult
IsSequential == RootNode.type \in SequentialTypes

Last(s) == s[Len(s)]

\* The tick recorded in e stopped on a child whose tick ended with o.
StoppedOn(e, o) == e.results # <<>> /\ Last(e.results) = o

\* Every child ticked before the one the tick stopped on returned v.
AllBeforeLast(e, v) ==
    \A i \in 1..(Len(e.results) - 1) : e.results[i] = Return(v)

\* Two ticks in which every child ticked in both ended the same way.
SameChildResults(a, b) ==
    \A i \in DOMAIN a.ticked : \A j \in DOMAIN b.ticked :
        a.ticked[i] = b.ticked[j] => a.results[i] = b.results[j]

(* C1: for a Sequence, Selector, Repeat or UntilFail with keepState = true *)
(* and at least one child, a tick that stops because the child at position *)
(* k returned Running leaves the cursor at k, and the next tick ticks      *)
(* child k first and ticks no child at a position below k.                 *)
C1_RunningIsResumed ==
    [][(IsSequential /\ RootNode.keepState /\ Arity >= 1) =>
          /\ StoppedOn(log', Return(Running)) =>
                nodes'[Root].enumerator.currentIndex = Last(log'.ticked)
          /\ StoppedOn(log, Return(Running)) =>
                /\ log'.ticked # <<>>
                /\ log'.ticked[1] = Last(log.ticked)
                /\ \A j \in DOMAIN log'.ticked : log'.ticked[j] >= Last(log.ticked)
      ]_vars

\* A keepState composite resumed at a position k >= 1.
C1_Witness ==
    /\ IsSequential /\ RootNode.keepState
    /\ log.entered.exists /\ log.entered.currentIndex >= 1
    /\ log.ticked # <<>> /\ log.ticked[1] = log.entered.currentIndex

(* C2: for a Sequence, Selector, Repeat or UntilFail with keepState =      *)
(* false every tick starts at child 0, whatever the earlier ticks did, so  *)
(* consecutive ticks in which the children end the same way tick the same  *)
(* children and end with the same status.                                  *)
C2_FreshPassEveryTick ==
    [][(IsSequential /\ ~RootNode.keepState) =>
          /\ log'.ticked # <<>> => log'.ticked[1] = 0
          /\ (HasTicked /\ SameChildResults(log, log')) =>
                (log'.ticked = log.ticked /\ log'.out = log.out)
      ]_vars

\* A composite without keepState whose previous tick had stopped at a
\* position k >= 1 (the cursor was left there) and which started at child 0.
C2_Witness ==
    /\ IsSequential /\ ~RootNode.keepState
    /\ log.entered.exists /\ log.entered.currentIndex >= 1
    /\ log.ticked # <<>> /\ log.ticked[1] = 0

\* What a tick of a Sequence recorded in e leaves in heap ns.
SequenceEnd(e, ns) ==
    e.ticked # <<>> =>
        /\ AllBeforeLast(e, Success)
        /\ StoppedOn(e, Return(Failure)) =>
              (e.out = Return(Failure) /\ ns[Root].enumerator.currentIndex = 0)
        /\ StoppedOn(e, Return(Success)) =>
              /\ Last(e.ticked) = Arity - 1
              /\ e.out = Return(Success)
              /\ ns[Root].enumerator.currentIndex = 0

(* C3: when every child of a Sequence ticks Success in order, the tick in  *)
(* which the last child succeeds returns Success and resets the cursor;    *)
(* when a child returns Failure the tick returns Failure, ticks no later   *)
(* child and resets the cursor; after a reset the next tick starts at      *)
(* child 0.                                                                *)
C3_SequenceResult ==
    [][RootNode.type = "Sequence" =>
          /\ SequenceEnd(log', nodes')
          /\ (StoppedOn(log, Return(Success)) \/ StoppedOn(log, Return(Failure))) =>
                (log'.ticked # <<>> /\ log'.ticked[1] = 0)
      ]_vars

\* A Sequence of at least two children, resumed at a later child, succeeded.
C3_Witness ==
    /\ RootNode.type = "Sequence" /\ Arity >= 2
    /\ StoppedOn(log, Return(Success)) /\ log.out = Return(Success)
    /\ log.entered.currentIndex >= 1 /\ log.ticked[1] >= 1
    /\ Cursor = 0

(* C4: in every tick of a Selector the first child that does not return    *)
(* Failure determines the result: its status is returned, no later child   *)
(* is ticked, and the cursor is reset when that status is Success; when    *)
(* all children return Failure the Selector returns Failure and resets the *)
(* cursor.                                                                 *)
C4_SelectorResult ==
    (RootNode.type = "Selector" /\ HasTicked /\ log.ticked # <<>>) =>
        /\ AllBeforeLast(log, Failure)
        /\ (~Last(log.results).thrown /\ Last(log.results) # Return(Failure)) =>
              /\ log.out = Last(log.results)
              /\ log.out = Return(Success) => Cursor = 0
        /\ StoppedOn(log, Return(Failure)) =>
              /\ Last(log.ticked) = Arity - 1
              /\ log.out = Return(Failure)
              /\ Cursor = 0

\* A Selector whose first child failed and whose second child succeeded.
C4_Witness ==
    /\ RootNode.type = "Selector" /\ Arity >= 3
    /\ log.ticked = <<0, 1>>
    /\ log.results = <<Return(Failure), Return(Success)>>
    /\ log.out = Return(Success) /\ Cursor = 0

\* The tick recorded in e ticked the last child and every child it ticked
\* returned Success.
Exhausted(e) ==
    /\ StoppedOn(e, Return(Success))
    /\ AllBeforeLast(e, Success)
    /\ Last(e.ticked) = Arity - 1

(* C5 as stated: an UntilFail tick returns Running only after exhausting   *)
(* all children with all Successes; it returns Failure in the first tick   *)
(* in which a child returns Failure; in both cases the cursor is reset.    *)
C5_RunningOnlyWhenExhausted ==
    (RootNode.type = "UntilFail" /\ HasTicked /\ Arity >= 1) =>
        /\ log.out = Return(Running) => (Exhausted(log) /\ Cursor = 0)
        /\ StoppedOn(log, Return(Failure)) =>
              (log.out = Return(Failure) /\ Cursor = 0)

(* C5 amended: an UntilFail tick returns Running only when the child it    *)
(* stopped on returned Running (the cursor stays at that child) or after   *)
(* it ticked the last child and every child it ticked returned Success     *)
(* (the cursor is reset); it returns Failure, and resets the cursor, in    *)
(* the tick in which a child returns Failure.                              *)
C5_UntilFailResult ==
    (RootNode.type = "UntilFail" /\ HasTicked /\ Arity >= 1) =>
        /\ log.out = Return(Running) =>
              \/ StoppedOn(log, Return(Running)) /\ Cursor = Last(log.ticked)
              \/ Exhausted(log) /\ Cursor = 0
        /\ Exhausted(log) => log.out = Return(Running)
        /\ StoppedOn(log, Return(Failure)) =>
              (log.out = Return(Failure) /\ Cursor = 0)

\* An UntilFail that returned Running because its second child is running.
C5_Witness ==
    /\ RootNode.type = "UntilFail" /\ Arity >= 3
    /\ log.ticked = <<0, 1>>
    /\ log.results = <<Return(Success), Return(Running)>>
    /\ log.out = Return(Running) /\ Cursor = 1

(* C6: every tick of a Repeat that completes returns Running, whatever the *)
(* number of children, keepState, the cursor and the children's statuses.  *)
C6_RepeatReturnsRunning ==
    (RootNode.type = "Repeat" /\ HasTicked /\ ~result.thrown) =>
        (result = Return(Running) /\ log.out = Return(Running))

\* A Repeat that stopped on a failing child after a succeeding one.
C6_Witness ==
    /\ RootNode.type = "Repeat"
    /\ log.results = <<Return(Success), Return(Failure)>>
    /\ result = Return(Running)

(* C7: with s Success and f Failure results among the children of a        *)
(* Parallel in one tick, the result is Success if requiredToSucceed > 0    *)
(* and s >= requiredToSucceed; otherwise Failure if requiredToFail > 0 and *)
(* f >= requiredToFail; otherwise Running.                                 *)
C7_ParallelThresholds ==
    (RootNode.type = "Parallel" /\ HasTicked) =>
        result =
            IF RootNode.requiredToSucceed > 0
                 /\ log.succeeded >= RootNode.requiredToSucceed
            THEN Return(Success)
            ELSE IF RootNode.requiredToFail > 0
                      /\ log.failed >= RootNode.requiredToFail
            THEN Return(Failure)
            ELSE Return(Running)

\* Both thresholds are met and the Parallel succeeded.
C7_Witness ==
    /\ RootNode.type = "Parallel"
    /\ RootNode.requiredToSucceed > 0 /\ RootNode.requiredToFail > 0
    /\ log.succeeded >= RootNode.requiredToSucceed
    /\ log.failed >= RootNode.requiredToFail
    /\ result = Return(Success)

(* C8: a Parallel tick never ends with an error: an error raised by the    *)
(* tick of a child is counted as exactly one Failure result for that       *)
(* child, and the results of the other children are still counted.         *)
C8_ParallelContainsErrors ==
    (RootNode.type = "Parallel" /\ HasTicked) =>
        /\ ~result.thrown
        /\ Len(log.ticked) = Arity
        /\ log.failed = log.returnedFailure + log.threw
        /\ log.succeeded = log.returnedSuccess

\* A Parallel with two children that threw and one that succeeded.
C8_Witness ==
    /\ RootNode.type = "Parallel" /\ Arity = 3
    /\ log.threw = 2 /\ log.returnedSuccess = 1
    /\ log.failed = 2 /\ log.succeeded = 1
    /\ ~result.thrown

(* C9: a tick of any node that completes without an error returns exactly  *)
(* one of Success, Failure, Running, whatever the leaf callables return.   *)
C9_TickReturnsStatus ==
    (HasTicked /\ ~result.thrown) => result.value \in BehaviorTreeStatus

(* C10: an Inverter maps its child's Success to Failure and Failure to     *)
(* Success and passes Running through; it keeps no state between ticks.    *)
C10_InverterResult ==
    [][(RootNode.type = "Inverter" /\ Arity = 1) =>
          /\ nodes'[Root] = nodes[Root]
          /\ log'.results = <<Return(Success)>> => result' = Return(Failure)
          /\ log'.results = <<Return(Failure)>> => result' = Return(Success)
          /\ log'.results = <<Return(Running)>> => result' = Return(Running)
      ]_vars

\* An Inverter whose child (a Sequence) returned Success.
C10_Witness ==
    /\ RootNode.type = "Inverter" /\ Arity = 1
    /\ nodes[RootNode.children[1]].type = "Sequence"
    /\ log.results = <<Return(Success)>>
    /\ result = Return(Failure)

(* C16: an error raised while a child of a Sequence, Selector, Repeat,     *)
(* UntilFail or Inverter is evaluated ends the tick of that node with the  *)
(* same error: no status is returned and no further child is ticked.       *)
C16_ErrorPropagates ==
    (HasTicked /\ (IsSequential \/ RootNode.type = "Inverter")) =>
        \A i \in DOMAIN log.results :
            log.results[i].thrown =>
                /\ i = Len(log.results)
                /\ result = log.results[i]

\* A composite whose second child raised an error while a third child was
\* still to come.
C16_Witness ==
    /\ IsSequential /\ Arity >= 3
    /\ log.ticked = <<0, 1>>
    /\ log.results[2].thrown
    /\ result = log.results[2]

(* C18: a Sequence, Selector, Repeat or UntilFail without children returns *)
(* Running on every tick, with keepState true or false, and ticks nothing. *)
C18_NoChildrenIsRunning ==
    (IsSequential /\ Arity = 0 /\ HasTicked) =>
        (result = Return(Running) /\ log.ticked = <<>>)

\* A composite without children that was ticked at least twice.
C18_Witness ==
    /\ IsSequential /\ Arity = 0 /\ RootNode.keepState
    /\ log.entered.exists
    /\ result = Return(Running)

(* C11: an Inverter never has more than one child: the first addChild      *)
(* sets the child, every later addChild fails with an error and leaves the *)
(* first child in place; the tick of an Inverter that never received a     *)
(* child fails with an error.                                              *)
C11_InverterSingleChild ==
    [][/\ Len(nodes'[Root].children) <= 1
       /\ call'.op = "addChild" =>
             IF RootNode.children = <<>>
             THEN /\ call'.error = NoError
                  /\ nodes'[Root].children = <<call'.node>>
             ELSE /\ call'.error = INVERTER_MULTIPLE_CHILDREN
                  /\ nodes' = nodes
       /\ (call'.op = "tick" /\ RootNode.children = <<>>) =>
             (result' = Throw(INVERTER_NO_CHILDREN) /\ nodes' = nodes)
      ]_vars

\* An Inverter that kept its first child when a second addChild, with
\* another node, failed.
C11_Witness ==
    /\ RootNode.type = "Inverter"
    /\ call.op = "addChild" /\ call.error = INVERTER_MULTIPLE_CHILDREN
    /\ Len(RootNode.children) = 1 /\ RootNode.children[1] # call.node

---------------------------------------------------------------------------
(* Properties of the builder *)

LeafOps == {"do", "condition", "splice"}

\* The error of do, condition and splice on an empty stack.
UnnestedError(op) ==
    IF op = "splice" THEN SPLICE_UNNESTED_TREE ELSE UNNESTED_ACTION_NODE

\* The step appended node call'.node as the last child of the node on top
\* of the stack and left the stack as it was.
AppendedToTop ==
    /\ call'.error = NoError
    /\ call'.node \notin DOMAIN nodes
    /\ nodes'[Peek(parentNodeStack)].children =
          Append(nodes[Peek(parentNodeStack)].children, call'.node)
    /\ call'.op # "splice" => nodes'[call'.node].type = "Action"
    /\ parentNodeStack' = parentNodeStack

\* The node on top of the stack is an Inverter that has its child.
TopIsFull ==
    /\ ~IsEmpty(parentNodeStack)
    /\ nodes[Peek(parentNodeStack)].type = "Inverter"
    /\ nodes[Peek(parentNodeStack)].children # <<>>

(* C12 as stated: do, condition and splice fail with an error exactly when *)
(* the stack of open nodes is empty; otherwise they append the new Action  *)
(* or the given subtree as the last child of the node on top of the stack  *)
(* and leave the stack unchanged.                                          *)
C12_FailOnlyOnEmptyStack ==
    [][call'.op \in LeafOps =>
          IF IsEmpty(parentNodeStack)
          THEN call'.error = UnnestedError(call'.op)
          ELSE AppendedToTop
      ]_vars

(* C12 amended: do, condition and splice fail with an error exactly when   *)
(* the stack of open nodes is empty or the node on top of it is an         *)
(* Inverter that already has a child; otherwise they append the new Action *)
(* or the given subtree as the last child of the node on top of the stack  *)
(* and leave the stack unchanged.                                          *)
C12_LeafCalls ==
    [][call'.op \in LeafOps =>
          IF IsEmpty(parentNodeStack)
          THEN call'.error = UnnestedError(call'.op)
          ELSE IF TopIsFull
          THEN call'.error = INVERTER_MULTIPLE_CHILDREN
          ELSE AppendedToTop
      ]_vars

\* A do, condition or splice call failed on an open Inverter that kept its
\* child.
C12_Witness ==
    /\ call.op \in LeafOps /\ call.error = INVERTER_MULTIPLE_CHILDREN
    /\ TopIsFull

\* build() threw "no nodes" if and only if no end() has completed, and
\* otherwise returned the node popped by the last end().
BuildReturnsLastPopped(c, popped) ==
    c.op = "build" =>
        /\ c.error = NO_NODES <=> popped = <<>>
        /\ c.error # NO_NODES =>
              (c.error = NoError /\ c.returned = Last(popped))

(* C13 as stated: build() fails with the "no nodes" error if and only if   *)
(* no end() call has ever completed; otherwise it returns the node popped  *)
(* by the most recent end(), and that node is the child of no other node.  *)
C13_BuildReturnsRoot ==
    /\ BuildReturnsLastPopped(call, session.popped)
    /\ (call.op = "build" /\ call.error = NoError) =>
          call.returned \in Parentless(nodes)

(* C13 amended: build() fails with the "no nodes" error if and only if no  *)
(* end() call has ever completed; otherwise it returns the node popped by  *)
(* the most recent end().  That node is the child of no other node exactly *)
(* when its end() left the stack empty, so it is a root whenever the stack *)
(* is empty when build() is called, and a child of the node below it on    *)
(* the stack when end() closed a nested node.                              *)
C13_BuildReturnsLastPopped ==
    [][/\ BuildReturnsLastPopped(call', session'.popped)
       /\ (call'.op = "build" /\ call'.error = NoError
              /\ IsEmpty(parentNodeStack')) =>
             call'.returned \in Parentless(nodes')
       /\ (call'.op = "end" /\ call'.error = NoError) =>
             /\ IsEmpty(parentNodeStack') =>
                   Last(session'.popped) \in Parentless(nodes')
             /\ ~IsEmpty(parentNodeStack') =>
                   \E i \in DOMAIN nodes'[Peek(parentNodeStack')].children :
                       nodes'[Peek(parentNodeStack')].children[i]
                           = Last(session'.popped)
      ]_vars

\* build() returned a nested node while its parent was still open.
C13_Witness ==
    /\ call.op = "build" /\ call.error = NoError
    /\ ~IsEmpty(parentNodeStack)
    /\ call.returned \notin Parentless(nodes)
    /\ call.returned = Last(session.popped)

\* One outermost open call was made (its node, the first one created, is
\* the only one without a parent) and every open call has been closed.
Balanced ==
    /\ nodes # <<>>
    /\ IsEmpty(parentNodeStack)
    /\ Parentless(nodes) = {1}

(* C14: after a balanced call sequence (one outermost open call, nested    *)
(* open calls, do, condition and splice calls, one end() per open call)    *)
(* build() returns the first opened node, and the children of every node   *)
(* are exactly the nodes added while it was on top of the stack, in call   *)
(* order.                                                                  *)
C14_RoundTrip ==
    Balanced =>
        /\ curNode = 1
        /\ call.op = "build" => (call.error = NoError /\ call.returned = 1)
        /\ \A n \in DOMAIN nodes : nodes[n].children = session.added[n]

\* sequence("s").do("a").do("b").end().build()
C14_Witness ==
    /\ Balanced
    /\ call.op = "build" /\ call.returned = 1
    /\ nodes[1].type = "Sequence" /\ nodes[1].children = <<2, 3>>
    /\ nodes[2].type = "Action" /\ nodes[3].type = "Action"

(* C15: a Sequence, Selector, Repeat or UntilFail created without an       *)
(* explicit keepState value, through the builder or by constructing the    *)
(* node directly, has keepState = true.                                    *)
C15_KeepStateDefaultsToTrue ==
    (call.error = NoError /\ call.node # NoNode /\ call.keepState = Undefined
        /\ nodes[call.node].type \in SequentialTypes) =>
        nodes[call.node].keepState = TRUE

---------------------------------------------------------------------------
(* Properties of a tick followed from one await to the next *)

\* The tick that was begun last has ended.
TickEnded == frame.pc = "idle" /\ HasTicked

\* Sequence s holds every element of sequence t exactly once.
IsPermutation(s, t) ==
    /\ Len(s) = Len(t)
    /\ \A i \in DOMAIN t : \E j \in DOMAIN s : s[j] = t[i]

(* C19: in every tick of a Parallel each child is ticked exactly once,     *)
(* also when a threshold is already met by earlier children; the ticks of  *)
(* all children are started before any of them is awaited to its end, and  *)
(* the result is computed only after the tick of every child has ended;    *)
(* the Parallel keeps no cursor or other state between ticks.              *)
C19_ParallelBarrier ==
    RootNode.type = "Parallel" =>
        /\ frame.started = SubSeq(RootNode.children, 1, Len(frame.started))
        /\ frame.completed # <<>> => frame.started = RootNode.children
        /\ Cardinality(SeqToSet(frame.completed)) = Len(frame.completed)
        /\ TickEnded =>
              /\ frame.started = RootNode.children
              /\ IsPermutation(frame.completed, RootNode.children)
        /\ RootNode.enumerator = NoEnumerator

\* A Parallel that needs one Success ticked its three children to the end
\* although the child that ended first, not the first child, had succeeded.
C19_Witness ==
    /\ RootNode.type = "Parallel" /\ RootNode.requiredToSucceed = 1
    /\ Arity = 3 /\ TickEnded
    /\ frame.completed[1] # RootNode.children[1]
    /\ frame.outs[1] = Return(Success)
    /\ Len(frame.completed) = 3
    /\ result = Return(Success)

\* The position at which the tick under way, or ended last, started.
FirstPosition ==
    IF RootNode.keepState /\ log.entered.exists
    THEN log.entered.currentIndex
    ELSE 0

(* C20: within one tick of a Sequence, Selector, Repeat or UntilFail the   *)
(* children are ticked one at a time in strictly increasing position       *)
(* starting at the cursor: the tick of a child has ended before the tick   *)
(* of the next child begins, each child is ticked at most once, and the    *)
(* tick makes at most as many child ticks as there are children.           *)
C20_OneChildAtATime ==
    IsSequential =>
        /\ FirstPosition + Len(frame.started) <= Arity
        /\ \A j \in DOMAIN frame.started :
              frame.started[j] = RootNode.children[FirstPosition + j]
        /\ frame.completed = SubSeq(frame.started, 1, Len(frame.completed))
        /\ Len(frame.started) <= Len(frame.completed) + 1
        /\ frame.pc = "idle" => frame.completed = frame.started
        /\ frame.pc = "await" =>
              /\ Len(frame.started) = Len(frame.completed) + 1
              /\ Cursor = FirstPosition + Len(frame.completed)

\* A keepState composite that resumed at its second child is awaiting its
\* third child, the second one having ended.
C20_Witness ==
    /\ IsSequential /\ RootNode.keepState /\ Arity = 3
    /\ FirstPosition = 1
    /\ frame.pc = "await"
    /\ frame.started = <<RootNode.children[2], RootNode.children[3]>>
    /\ frame.completed = <<RootNode.children[2]>>

---------------------------------------------------------------------------
(* Properties of the cursor and of failing builder calls *)

(* C21: the cursor of a Sequence, Selector, Repeat or UntilFail with n >=  *)
(* 1 children is always in 0..n-1; once a tick has returned, it is 0       *)
(* unless that tick stopped on a child that returned neither Success nor   *)
(* Failure, and then it is the position of that child.                     *)
C21_CursorInvariant ==
    (IsSequential /\ Arity >= 1) =>
        /\ Cursor \in 0..(Arity - 1)
        /\ (HasTicked /\ ~result.thrown) =>
              IF Last(log.results).value \in {Success, Failure}
              THEN Cursor = 0
              ELSE Cursor = Last(log.ticked)

\* A composite returned from a tick that had resumed at its second child
\* and stopped on its third child, which is running: the cursor is there.
C21_Witness ==
    /\ IsSequential /\ Arity = 3
    /\ log.ticked = <<1, 2>>
    /\ Last(log.results) = Return(Running)
    /\ ~result.thrown
    /\ Cursor = 2

(* C22: a builder call that fails (do, condition or splice on an empty     *)
(* stack, build() before any end(), an open call or do, condition or       *)
(* splice that would add a second child to the Inverter on top of the      *)
(* stack) leaves the stack of open nodes and the last-completed node as    *)
(* they were and adds no child to any node.                                *)
C22_FailedCallChangesNothing ==
    [][call'.error # NoError =>
          /\ parentNodeStack' = parentNodeStack
          /\ curNode' = curNode
          /\ DOMAIN nodes' = DOMAIN nodes
          /\ \A n \in DOMAIN nodes : nodes'[n].children = nodes[n].children
      ]_vars

\* An open call failed on an open Inverter that has its child, below which
\* another node is open.
C22_Witness ==
    /\ call.op \in {"sequence", "selector", "repeat", "untilFail",
                    "parallel", "inverter"}
    /\ call.error = INVERTER_MULTIPLE_CHILDREN
    /\ TopIsFull
    /\ Len(parentNodeStack) = 2
    /\ Len(nodes[Peek(parentNodeStack)].children) = 1

====
